---- MODULE Spec2Model ----
(***************************************************************************)
(* A model of obsidian-taskbase: the checkbox write-back of toggle.ts, the *)
(* view life cycle and debouncer of view.ts, and the configuration parser  *)
(* of config.ts.                                                           *)
(*                                                                         *)
(* Text is a sequence of one-character strings, so that splitting,         *)
(* joining, pattern matching and escaping are computed as the code         *)
(* computes them.                                                          *)
(***************************************************************************)
EXTENDS Integers, Sequences, FiniteSets, TLC

VARIABLES
    vault,      \* toggle.ts: the content of every document of the vault
    lastOp,     \* history: the last operation on the vault, its input, the vault before it, its result
    chain,      \* history: the run of consecutive successful toggles of one task
    batch,      \* toggle.ts: one call of toggleTasks: its requests, their progress, its results
    cfg,        \* config.ts: a selection definition or document, its file's text, and what parseConfig returns
    view,       \* view.ts: the fields of the TaskBaseView and what it displays
    dc,         \* window.datacore: whether it exists and is initialized, the view's subscriptions, the index version
    timers,     \* the pending timers of window.setTimeout
    clock,      \* the time in milliseconds and the next timer id
    file,       \* the view's .taskbase file: its content, and what parseConfig returns for that content
    hist,       \* history: notifications, bursts and passes of the debouncer, the outcome of the last config load
    qry,        \* query.ts: a filter value or a source and view, and the text formatValue or buildQuery returns
    agg         \* view.ts, task-list.ts: one pass of refresh over a result set: its groups, their order, what is rendered

viewVars == <<view, dc, timers, clock, file, hist>>

pureVars == <<qry, agg>>

vars == <<vault, lastOp, chain, batch, cfg, view, dc, timers, clock, file, hist, qry, agg>>

(***************************************************************************)
(* Bounds                                                                  *)
(***************************************************************************)
\* The longest document Init draws, in lines.
MaxLines == 3
\* The longest request sequence handed to toggleTasks.
MaxBatch == 2
\* The longest filter sequence of a selection definition.
MaxFilters == 2
\* The number of index updates of the engine in one behaviour.
MaxUpdates == 3
\* The time, in milliseconds, at which the clock stops.
MaxTime == 1500
\* The longest step of the clock, in milliseconds.
TickMs == 250
\* The number of documents of the engine's index.
MaxDocs == 2
\* The number of edits of another writer between two toggles.
MaxEdits == 1

MaxPending == 1

(***************************************************************************)
(* Characters                                                              *)
(***************************************************************************)
LF == "\n"
CR == "\r"

\* JavaScript's \s, on the characters of the model.
isSpace(c) == c \in {" ", "\t", CR, LF}

\* JavaScript's . (no dotAll flag): any character but a line terminator.
isDot(c) == c \notin {LF, CR}

\* The length of the longest run of white space of s that starts at index from.
spaceRun(s, from) ==
    CHOOSE n \in 0..(Len(s) + 1) :
        /\ from + n <= Len(s) + 1
        /\ \A k \in from..(from + n - 1) : isSpace(s[k])
        /\ (from + n > Len(s) \/ ~isSpace(s[from + n]))

\* The length of the longest run of non-terminators of s that starts at index from.
dotRun(s, from) ==
    CHOOSE n \in 0..(Len(s) + 1) :
        /\ from + n <= Len(s) + 1
        /\ \A k \in from..(from + n - 1) : isDot(s[k])
        /\ (from + n > Len(s) \/ ~isDot(s[from + n]))

(***************************************************************************)
(* JavaScript values and JSON text                                         *)
(*                                                                         *)
(* A value is a record of its type t and, by type, its boolean b, its      *)
(* number n (counted in halves, so that 1.5 is 3 and 1 is 2), its string   *)
(* s, its array items a or its object entries o (key and value, in         *)
(* insertion order). JSON text is a sequence of lexical tokens; a string   *)
(* token carries the characters between its quotes, escapes included, and  *)
(* a number token its digits.                                              *)
(***************************************************************************)
JV(t, b, n, s, a, o) == [t |-> t, b |-> b, n |-> n, s |-> s, a |-> a, o |-> o]

Undefined == JV("undefined", FALSE, 0, <<>>, <<>>, <<>>)

Null == JV("null", FALSE, 0, <<>>, <<>>, <<>>)

Bool(b) == JV("boolean", b, 0, <<>>, <<>>, <<>>)

Num(n) == JV("number", FALSE, n, <<>>, <<>>, <<>>)

Str(s) == JV("string", FALSE, 0, s, <<>>, <<>>)

Arr(a) == JV("array", FALSE, 0, <<>>, a, <<>>)

Obj(o) == JV("object", FALSE, 0, <<>>, <<>>, o)

Entry(k, v) == [k |-> k, v |-> v]

\* typeof v
typeof(v) == IF v.t \in {"null", "array", "object"} THEN "object" ELSE v.t

\* v[key] for a property name that is no array index: undefined unless v is
\* an object that has the property.
get(v, key) ==
    IF v.t = "object" /\ \E i \in 1..Len(v.o) : v.o[i].k = key
    THEN v.o[CHOOSE i \in 1..Len(v.o) : v.o[i].k = key].v
    ELSE Undefined

\* obj[key] = value while an object literal is parsed: a repeated key keeps
\* its place and takes the later value.
setProp(o, key, value) ==
    IF \E i \in 1..Len(o) : o[i].k = key
    THEN [i \in 1..Len(o) |-> IF o[i].k = key THEN Entry(key, value) ELSE o[i]]
    ELSE Append(o, Entry(key, value))

Tok(k, raw) == [k |-> k, raw |-> raw]

Punct(k) == Tok(k, <<>>)

\* JSON.stringify's quoting of the characters of a string: the quote, the
\* backslash and the line feed are escaped.
RECURSIVE escape(_)
escape(s) ==
    IF Len(s) = 0 THEN <<>>
    ELSE (CASE Head(s) = "\"" -> <<"\\", "\"">>
            [] Head(s) = "\\" -> <<"\\", "\\">>
            [] Head(s) = LF   -> <<"\\", "n">>
            [] OTHER          -> <<Head(s)>>) \o escape(Tail(s))

\* The characters a JSON string token stands for, or the failure of
\* JSON.parse on it: a bare quote or line feed, or a backslash that starts
\* no escape.
RECURSIVE unescape(_)
unescape(raw) ==
    IF Len(raw) = 0 THEN [ok |-> TRUE, s |-> <<>>]
    ELSE IF Head(raw) \in {"\"", LF} THEN [ok |-> FALSE, s |-> <<>>]
    ELSE IF Head(raw) # "\\"
    THEN LET r == unescape(Tail(raw))
         IN  [ok |-> r.ok, s |-> <<Head(raw)>> \o r.s]
    ELSE IF Len(raw) < 2 \/ raw[2] \notin {"\"", "\\", "n"}
    THEN [ok |-> FALSE, s |-> <<>>]
    ELSE LET r == unescape(SubSeq(raw, 3, Len(raw)))
         IN  [ok |-> r.ok, s |-> <<IF raw[2] = "n" THEN LF ELSE raw[2]>> \o r.s]

Digits == <<"0", "1", "2", "3", "4", "5", "6", "7", "8", "9">>

digitValue(c) == CHOOSE d \in 0..9 : Digits[d + 1] = c

RECURSIVE natToString(_)
natToString(k) ==
    IF k < 10 THEN <<Digits[k + 1]>>
    ELSE natToString(k \div 10) \o <<Digits[(k % 10) + 1]>>

\* Number.prototype.toString for a number n counted in halves.
numberToString(n) ==
    (IF n < 0 THEN <<"-">> ELSE <<>>)
    \o natToString((IF n < 0 THEN 0 - n ELSE n) \div 2)
    \o (IF n % 2 = 1 THEN <<".", "5">> ELSE <<>>)

RECURSIVE stringToNat(_, _)
stringToNat(ds, acc) ==
    IF Len(ds) = 0 THEN acc ELSE stringToNat(Tail(ds), 10 * acc + digitValue(Head(ds)))

\* The number a JSON number token stands for, in halves: an optional minus,
\* digits, and an optional fraction, of which the model has only ".5".
parseNumber(raw) ==
    LET neg  == Len(raw) > 0 /\ Head(raw) = "-"
        body == IF neg THEN Tail(raw) ELSE raw
        half == Len(body) > 2 /\ SubSeq(body, Len(body) - 1, Len(body)) = <<".", "5">>
        ds   == IF half THEN SubSeq(body, 1, Len(body) - 2) ELSE body
    IN  IF Len(ds) = 0 \/ \E i \in 1..Len(ds) : \A d \in 1..10 : Digits[d] # ds[i]
        THEN [ok |-> FALSE, n |-> 0]
        ELSE LET m == 2 * stringToNat(ds, 0) + (IF half THEN 1 ELSE 0)
             IN  [ok |-> TRUE, n |-> IF neg THEN 0 - m ELSE m]

\* JSON.stringify(value, null, 2): an entry whose value is undefined is left
\* out of its object, an undefined array item is written null, and line
\* breaks and indentation (the token ws) go where the indent argument puts
\* them.
RECURSIVE stringify(_), stringifyItems(_), stringifyEntries(_)
stringify(v) ==
    CASE v.t = "null"      -> <<Punct("null")>>
      [] v.t = "undefined" -> <<Punct("null")>>
      [] v.t = "boolean"   -> <<Punct(IF v.b THEN "true" ELSE "false")>>
      [] v.t = "number"    -> <<Tok("num", numberToString(v.n))>>
      [] v.t = "string"    -> <<Tok("str", escape(v.s))>>
      [] v.t = "array"     ->
            IF Len(v.a) = 0 THEN <<Punct("["), Punct("]")>>
            ELSE <<Punct("["), Punct("ws")>> \o stringifyItems(v.a)
                     \o <<Punct("ws"), Punct("]")>>
      [] v.t = "object"    ->
            LET kept == SelectSeq(v.o, LAMBDA e : e.v.t # "undefined")
            IN  IF Len(kept) = 0 THEN <<Punct("{"), Punct("}")>>
                ELSE <<Punct("{"), Punct("ws")>> \o stringifyEntries(kept)
                         \o <<Punct("ws"), Punct("}")>>

stringifyItems(a) ==
    IF Len(a) = 1 THEN stringify(a[1])
    ELSE stringify(a[1]) \o <<Punct(","), Punct("ws")>> \o stringifyItems(Tail(a))

stringifyEntries(o) ==
    LET one == <<Tok("str", escape(o[1].k)), Punct(":"), Punct("ws")>> \o stringify(o[1].v)
    IN  IF Len(o) = 1 THEN one
        ELSE one \o <<Punct(","), Punct("ws")>> \o stringifyEntries(Tail(o))

ParseFail == [ok |-> FALSE, v |-> Undefined, rest |-> <<>>]

ParseOk(v, rest) == [ok |-> TRUE, v |-> v, rest |-> rest]

\* ts without its leading white space.
skipWs(ts) ==
    LET n == CHOOSE n \in 0..Len(ts) :
                 /\ \A i \in 1..n : ts[i].k = "ws"
                 /\ (n = Len(ts) \/ ts[n + 1].k # "ws")
    IN  SubSeq(ts, n + 1, Len(ts))

\* JSON.parse, by recursive descent: the value at the head of ts and the
\* tokens after it, or failure.
RECURSIVE parseValue(_), parseElements(_, _), parseMembers(_, _)
parseValue(ts0) ==
    LET ts == skipWs(ts0)
    IN  IF Len(ts) = 0 THEN ParseFail
        ELSE LET h == Head(ts)
                 r == skipWs(Tail(ts))
             IN  CASE h.k = "null"  -> ParseOk(Null, r)
                   [] h.k = "true"  -> ParseOk(Bool(TRUE), r)
                   [] h.k = "false" -> ParseOk(Bool(FALSE), r)
                   [] h.k = "num"   ->
                         IF parseNumber(h.raw).ok
                         THEN ParseOk(Num(parseNumber(h.raw).n), r) ELSE ParseFail
                   [] h.k = "str"   ->
                         IF unescape(h.raw).ok
                         THEN ParseOk(Str(unescape(h.raw).s), r) ELSE ParseFail
                   [] h.k = "["     ->
                         IF Len(r) > 0 /\ Head(r).k = "]"
                         THEN ParseOk(Arr(<<>>), Tail(r)) ELSE parseElements(r, <<>>)
                   [] h.k = "{"     ->
                         IF Len(r) > 0 /\ Head(r).k = "}"
                         THEN ParseOk(Obj(<<>>), Tail(r)) ELSE parseMembers(r, <<>>)
                   [] OTHER         -> ParseFail

parseElements(ts, acc) ==
    LET pv == parseValue(ts)
        r  == skipWs(pv.rest)
    IN  IF ~pv.ok \/ Len(r) = 0 THEN ParseFail
        ELSE IF Head(r).k = "," THEN parseElements(Tail(r), Append(acc, pv.v))
        ELSE IF Head(r).k = "]" THEN ParseOk(Arr(Append(acc, pv.v)), Tail(r))
        ELSE ParseFail

parseMembers(ts0, acc) ==
    LET ts == skipWs(ts0)
    IN  IF Len(ts) < 2 \/ Head(ts).k # "str" \/ ~unescape(Head(ts).raw).ok THEN ParseFail
        ELSE LET key == unescape(Head(ts).raw).s
                 c   == skipWs(Tail(ts))
             IN  IF Len(c) = 0 \/ Head(c).k # ":" THEN ParseFail
                 ELSE LET pv == parseValue(Tail(c))
                          r  == skipWs(pv.rest)
                      IN  IF ~pv.ok \/ Len(r) = 0 THEN ParseFail
                          ELSE IF Head(r).k = ","
                          THEN parseMembers(Tail(r), setProp(acc, key, pv.v))
                          ELSE IF Head(r).k = "}"
                          THEN ParseOk(Obj(setProp(acc, key, pv.v)), Tail(r))
                          ELSE ParseFail

\* JSON.parse(text): the value, or ok = FALSE where it throws a SyntaxError.
JSON_parse(text) ==
    LET p == parseValue(text)
    IN  IF p.ok /\ Len(skipWs(p.rest)) = 0 THEN [ok |-> TRUE, v |-> p.v]
        ELSE [ok |-> FALSE, v |-> Undefined]

(***************************************************************************)
(* config.ts                                                               *)
(***************************************************************************)
K_version == <<"v", "e", "r", "s", "i", "o", "n">>

K_source == <<"s", "o", "u", "r", "c", "e">>

K_view == <<"v", "i", "e", "w">>

K_folder == <<"f", "o", "l", "d", "e", "r">>

K_filters == <<"f", "i", "l", "t", "e", "r", "s">>

K_property == <<"p", "r", "o", "p", "e", "r", "t", "y">>

K_operator == <<"o", "p", "e", "r", "a", "t", "o", "r">>

K_value == <<"v", "a", "l", "u", "e">>

K_showCompleted == <<"s", "h", "o", "w", "C", "o", "m", "p", "l", "e", "t", "e", "d">>

K_sortBy == <<"s", "o", "r", "t", "B", "y">>

K_sortDirection == <<"s", "o", "r", "t", "D", "i", "r", "e", "c", "t", "i", "o", "n">>

\* VALID_OPERATORS
VALID_OPERATORS == { <<"=">>,
                     <<"!", "=">>,
                     <<"<">>,
                     <<"<", "=">>,
                     <<">">>,
                     <<">", "=">>,
                     <<"c", "o", "n", "t", "a", "i", "n", "s">> }

\* VALID_SORT_DIRECTIONS
VALID_SORT_DIRECTIONS == { <<"a", "s", "c">>, <<"d", "e", "s", "c">> }
S_file == <<"f", "i", "l", "e">>

S_asc == <<"a", "s", "c">>

S_desc == <<"d", "e", "s", "c">>

S_contains == <<"c", "o", "n", "t", "a", "i", "n", "s">>

\* isValidFilter(filter)
isValidFilter(f) ==
    /\ typeof(f) = "object"
    /\ f.t # "null"
    /\ typeof(get(f, K_property)) = "string"
    /\ Len(get(f, K_property).s) > 0
    /\ typeof(get(f, K_operator)) = "string"
    /\ get(f, K_operator).s \in VALID_OPERATORS
    /\ typeof(get(f, K_value)) = "string"

\* isValidSource(source)
isValidSource(src) ==
    /\ typeof(src) = "object"
    /\ src.t # "null"
    /\ ~(get(src, K_folder).t # "undefined" /\ typeof(get(src, K_folder)) # "string")
    /\ get(src, K_filters).t = "array"
    /\ \A i \in 1..Len(get(src, K_filters).a) : isValidFilter(get(src, K_filters).a[i])

\* isValidViewConfig(view)
isValidViewConfig(vw) ==
    /\ typeof(vw) = "object"
    /\ vw.t # "null"
    /\ typeof(get(vw, K_showCompleted)) = "boolean"
    /\ typeof(get(vw, K_sortBy)) = "string"
    /\ typeof(get(vw, K_sortDirection)) = "string"
    /\ get(vw, K_sortDirection).s \in VALID_SORT_DIRECTIONS

ConfigFailure(message) == [success |-> FALSE, error |-> message, config |-> Undefined]

\* The object literal { version, source, view }.
Config(version, source, vw) ==
    Obj(<<Entry(K_version, version), Entry(K_source, source), Entry(K_view, vw)>>)

\* parseConfig that rebuilds the source from its filters alone.
parseConfigDropsFolder(content) ==
    LET p == JSON_parse(content)
    IN  IF ~p.ok THEN ConfigFailure("Invalid JSON")
        ELSE IF get(p.v, K_version).t # "number" \/ get(p.v, K_version).n < 2
                \/ ~isValidSource(get(p.v, K_source)) \/ ~isValidViewConfig(get(p.v, K_view))
        THEN ConfigFailure("Invalid config")
        ELSE [success |-> TRUE, error |-> "",
              config |-> Config(get(p.v, K_version),
                                Obj(<<Entry(K_filters, get(get(p.v, K_source), K_filters))>>),
                                get(p.v, K_view))]

\* parseConfig(content)
parseConfig(content) ==
    LET p == JSON_parse(content)
    IN  IF ~p.ok THEN ConfigFailure("Invalid JSON")
        ELSE IF typeof(p.v) # "object" \/ p.v.t = "null"
        THEN ConfigFailure("Config must be an object")
        ELSE IF typeof(get(p.v, K_version)) # "number" \/ get(p.v, K_version).n < 2
        THEN ConfigFailure("Missing or invalid version")
        ELSE IF ~isValidSource(get(p.v, K_source))
        THEN ConfigFailure("Invalid source configuration")
        ELSE IF ~isValidViewConfig(get(p.v, K_view))
        THEN ConfigFailure("Invalid view configuration")
        ELSE [success |-> TRUE, error |-> "",
              config |-> Config(get(p.v, K_version), get(p.v, K_source), get(p.v, K_view))]

\* serializeConfig(config)
serializeConfig(config) == stringify(config)

ViewConfig(showCompleted, sortBy, sortDirection) ==
    Obj(<<Entry(K_showCompleted, Bool(showCompleted)),
          Entry(K_sortBy, Str(sortBy)),
          Entry(K_sortDirection, Str(sortDirection))>>)

\* DEFAULT_CONFIG
DEFAULT_CONFIG ==
    Config(Num(2), Obj(<<Entry(K_filters, Arr(<<>>))>>), ViewConfig(FALSE, S_file, S_desc))

NoCfg == [pc |-> "idle", kind |-> "none", doc |-> Undefined, text |-> <<>>,
          out |-> ConfigFailure("")]

(***************************************************************************)
(* query.ts                                                                *)
(***************************************************************************)
Quote == <<"\"">>

T_today == <<"t", "o", "d", "a", "y">>
T_now == <<"n", "o", "w">>
T_true == <<"t", "r", "u", "e">>
T_false == <<"f", "a", "l", "s", "e">>
T_dateOpen == <<"d", "a", "t", "e", "(">>
T_close == <<")">>
T_containsOpen == <<".", "c", "o", "n", "t", "a", "i", "n", "s", "(">>
T_pathOpen == <<"p", "a", "t", "h", "(", "\"">>
T_pathClose == <<"\"", ")">>
T_page == <<"@", "p", "a", "g", "e">>
T_and == <<" ", "a", "n", "d", " ">>
T_taskChildof == <<"@", "t", "a", "s", "k", " ", "a", "n", "d", " ", "c", "h", "i", "l", "d", "o", "f", "(">>
T_notCompleted == <<" ", "a", "n", "d", " ", "$", "c", "o", "m", "p", "l", "e", "t", "e", "d", " ", "=", " ", "f", "a", "l", "s", "e">>

isDigit(c) == \E d \in 1..10 : Digits[d] = c

\* /^\d{4}-\d{2}-\d{2}$/.test(value)
isISODate(value) ==
    /\ Len(value) = 10
    /\ \A k \in {1, 2, 3, 4, 6, 7, 9, 10} : isDigit(value[k])
    /\ value[5] = "-"
    /\ value[8] = "-"

\* The same pattern without its ^ anchor: it matches at the end of the value.
isISODateUnanchored(value) ==
    /\ Len(value) >= 10
    /\ isISODate(SubSeq(value, Len(value) - 9, Len(value)))

\* /^-?\d+(\.\d+)?$/.test(value)
isNumber(value) ==
    LET body   == IF Len(value) > 0 /\ Head(value) = "-" THEN Tail(value) ELSE value
        digits(x) == Len(x) > 0 /\ \A k \in 1..Len(x) : isDigit(x[k])
    IN  \/ digits(body)
        \/ \E k \in 1..Len(body) :
               /\ body[k] = "."
               /\ digits(SubSeq(body, 1, k - 1))
               /\ digits(SubSeq(body, k + 1, Len(body)))

\* value.replace(/"/g, '\\"')
RECURSIVE escapeQuotes(_)
escapeQuotes(value) ==
    IF Len(value) = 0 THEN <<>>
    ELSE (IF Head(value) = "\"" THEN <<"\\", "\"">> ELSE <<Head(value)>>)
         \o escapeQuotes(Tail(value))

\* formatValue whose date pattern has lost its ^ anchor.
formatValueUnanchored(value) ==
    IF value = T_today \/ value = T_now THEN T_dateOpen \o value \o T_close
    ELSE IF isISODateUnanchored(value) THEN T_dateOpen \o value \o T_close
    ELSE IF Len(value) > 0 /\ Head(value) = "#" THEN Quote \o value \o Quote
    ELSE IF value = T_true \/ value = T_false THEN value
    ELSE IF isNumber(value) THEN value
    ELSE Quote \o escapeQuotes(value) \o Quote

\* formatValue(value)
formatValue(value) ==
    IF value = T_today \/ value = T_now THEN T_dateOpen \o value \o T_close
    ELSE IF isISODate(value) THEN T_dateOpen \o value \o T_close
    ELSE IF Len(value) > 0 /\ Head(value) = "#" THEN Quote \o value \o Quote
    ELSE IF value = T_true \/ value = T_false THEN value
    ELSE IF isNumber(value) THEN value
    ELSE Quote \o escapeQuotes(value) \o Quote

\* buildFilterExpression(filter)
buildFilterExpression(filter) ==
    LET value == formatValue(get(filter, K_value).s)
    IN  IF get(filter, K_operator).s = S_contains
        THEN get(filter, K_property).s \o T_containsOpen \o value \o T_close
        ELSE get(filter, K_property).s \o <<" ">> \o get(filter, K_operator).s
             \o <<" ">> \o value

\* conditions.join(" and ")
RECURSIVE joinAnd(_)
joinAnd(conditions) ==
    IF Len(conditions) = 0 THEN <<>>
    ELSE IF Len(conditions) = 1 THEN conditions[1]
    ELSE conditions[1] \o T_and \o joinAnd(Tail(conditions))

\* buildPageQuery(source): a folder that is a string, not empty and not all
\* white space, gives the path condition; then one condition per filter.
buildPageQuery(source) ==
    LET folder     == get(source, K_folder)
        hasFolder  == /\ folder.t = "string"
                      /\ \E k \in 1..Len(folder.s) : ~isSpace(folder.s[k])
        filters    == get(source, K_filters).a
        conditions == (IF hasFolder
                       THEN <<T_pathOpen \o escapeQuotes(folder.s) \o T_pathClose>>
                       ELSE <<>>)
                      \o [k \in 1..Len(filters) |-> buildFilterExpression(filters[k])]
    IN  IF Len(conditions) = 0 THEN T_page
        ELSE T_page \o T_and \o joinAnd(conditions)

\* buildQuery that appends the completion clause whatever the view says.
buildQueryAlwaysHides(source, vw) ==
    T_taskChildof \o buildPageQuery(source) \o T_close \o T_notCompleted

\* buildQuery(source, view)
buildQuery(source, vw) ==
    LET taskQuery == T_taskChildof \o buildPageQuery(source) \o T_close
    IN  IF ~get(vw, K_showCompleted).b THEN taskQuery \o T_notCompleted
        ELSE taskQuery

(***************************************************************************)
(* view.ts, task-list.ts: grouping, sorting and rendering a result set     *)
(*                                                                         *)
(* A list item is a record of its $file (a path, as characters), $line,    *)
(* $completed (a boolean, or undefined for a plain list item), $parentLine *)
(* and $elements. A Map is the sequence of its entries in insertion order. *)
(***************************************************************************)
Item(path, ln, completed, parentLine, elements) ==
    [file |-> path, line |-> ln, completed |-> completed,
     parentLine |-> parentLine, elements |-> elements]

\* Array.prototype.sort(cmp): stable, so an element comes after the elements
\* that compare lower and after the earlier elements that compare equal.
stableSort(seq, cmp(_, _)) ==
    LET n      == Len(seq)
        pos(i) == 1 + Cardinality({ j \in 1..n :
                          \/ cmp(seq[j], seq[i]) < 0
                          \/ cmp(seq[j], seq[i]) = 0 /\ j < i })
    IN  [k \in 1..n |-> seq[CHOOSE i \in 1..n : pos(i) = k]]

\* The collation of String.prototype.localeCompare on the letters of the
\* model: letters compare without their case first, and a lower-case letter
\* comes before its upper-case letter.
primary(c) ==
    CASE c \in {"a", "A"} -> 1
      [] c \in {"b", "B"} -> 2
      [] OTHER            -> 3

tertiary(c) == IF c \in {"A", "B"} THEN 1 ELSE 0

\* The comparison of two sequences of weights, as -1, 0 or 1.
RECURSIVE compareWeights(_, _)
compareWeights(x, y) ==
    IF Len(x) = 0 /\ Len(y) = 0 THEN 0
    ELSE IF Len(x) = 0 THEN 0 - 1
    ELSE IF Len(y) = 0 THEN 1
    ELSE IF Head(x) < Head(y) THEN 0 - 1
    ELSE IF Head(x) > Head(y) THEN 1
    ELSE compareWeights(Tail(x), Tail(y))

\* a.localeCompare(b)
localeCompare(a, b) ==
    LET p == compareWeights([k \in 1..Len(a) |-> primary(a[k])],
                            [k \in 1..Len(b) |-> primary(b[k])])
    IN  IF p # 0 THEN p
        ELSE compareWeights([k \in 1..Len(a) |-> tertiary(a[k])],
                            [k \in 1..Len(b) |-> tertiary(b[k])])

\* existing = groups.get(key) || []; existing.push(task); groups.set(key, existing)
mapPush(groups, key, task) ==
    IF \E k \in 1..Len(groups) : groups[k].key = key
    THEN LET k == CHOOSE i \in 1..Len(groups) : groups[i].key = key
         IN  [groups EXCEPT ![k].tasks = Append(@, task)]
    ELSE Append(groups, [key |-> key, tasks |-> <<task>>])

\* The loop of groupByFile without its test of $parentLine.
RECURSIVE groupLoopKeepsNested(_, _)
groupLoopKeepsNested(tasks, i) ==
    IF i = 0 THEN <<>>
    ELSE mapPush(groupLoopKeepsNested(tasks, i - 1), tasks[i].file, tasks[i])

\* groupByFile over that loop.
groupByFileKeepsNested(tasks) ==
    LET groups == groupLoopKeepsNested(tasks, Len(tasks))
    IN  [k \in 1..Len(groups) |->
            [key   |-> groups[k].key,
             tasks |-> stableSort(groups[k].tasks, LAMBDA a, b : a.line - b.line)]]

\* The loop of groupByFile over the first i tasks.
RECURSIVE groupLoop(_, _)
groupLoop(tasks, i) ==
    IF i = 0 THEN <<>>
    ELSE IF tasks[i].parentLine >= 0 THEN groupLoop(tasks, i - 1)
    ELSE mapPush(groupLoop(tasks, i - 1), tasks[i].file, tasks[i])

\* groupByFile(tasks): the loop, then each group sorted by $line.
groupByFile(tasks) ==
    LET groups == groupLoop(tasks, Len(tasks))
    IN  [k \in 1..Len(groups) |->
            [key   |-> groups[k].key,
             tasks |-> stableSort(groups[k].tasks, LAMBDA a, b : a.line - b.line)]]

\* sortGroups whose direction is always 1.
sortGroupsAscending(groups, vw) ==
    stableSort(groups, LAMBDA a, b :
        IF get(vw, K_sortBy).s = S_file THEN localeCompare(a.key, b.key) ELSE 0)

\* sortGroups(groups), with this.config.view
sortGroups(groups, vw) ==
    LET direction == IF get(vw, K_sortDirection).s = S_asc THEN 1 ELSE 0 - 1
    IN  stableSort(groups, LAMBDA a, b :
            IF get(vw, K_sortBy).s = S_file
            THEN direction * localeCompare(a.key, b.key)
            ELSE 0)

\* TaskList.isTask(item)
isTask(item) == typeof(item.completed) = "boolean"

\* What TaskList.renderTask draws of an item: its list element, with the
\* state of its checkbox.
Drawn(task) == [file |-> task.file, line |-> task.line, completed |-> task.completed]

\* TaskList.renderTask(container, task): the task, then its children that are
\* tasks, recursively; the list elements drawn, in document order.
RECURSIVE renderTask(_), renderChildren(_)
renderTask(task) == <<Drawn(task)>> \o renderChildren(task.elements)

renderChildren(elements) ==
    IF Len(elements) = 0 THEN <<>>
    ELSE (IF isTask(Head(elements)) THEN renderTask(Head(elements)) ELSE <<>>)
         \o renderChildren(Tail(elements))

\* for (const task of group.tasks) this.renderTask(listEl, task)
RECURSIVE renderTasks(_)
renderTasks(tasks) ==
    IF Len(tasks) = 0 THEN <<>>
    ELSE renderTask(Head(tasks)) \o renderTasks(Tail(tasks))

\* TaskList.update(groups) and render(): the groups in order.
RECURSIVE render(_)
render(groups) ==
    IF Len(groups) = 0 THEN <<>>
    ELSE renderTasks(Head(groups).tasks) \o render(Tail(groups))

(***************************************************************************)
(* view.ts: the TaskBaseView as constructed, and the file it loads         *)
(***************************************************************************)
DEBOUNCE_MS == 500

\* The contents the .taskbase file takes: two selection definitions, a
\* document with version 0, and text that is no JSON.
FileTexts ==
    [ A    |-> serializeConfig(Config(Num(2), Obj(<<Entry(K_filters, Arr(<<>>))>>),
                                      ViewConfig(TRUE, S_file, S_asc))),
      B    |-> serializeConfig(Config(Num(2), Obj(<<Entry(K_folder, Str(<<"P">>)),
                                                    Entry(K_filters, Arr(<<>>))>>),
                                      ViewConfig(FALSE, S_file, S_desc))),
      v0   |-> stringify(Obj(<<Entry(K_version, Num(0))>>)),
      junk |-> <<Punct("{"), Tok("str", K_version)>> ]

Files == DOMAIN FileTexts

\* parseConfig(await this.app.vault.read(file)), for each content of the file:
\* a function of the content alone, so it is kept with the content.
LoadResults == [f \in Files |-> parseConfig(FileTexts[f])]

\* The states of the file: a content, with the result loadConfig gets from it.
FileStates == { [name |-> f, result |-> LoadResults[f]] : f \in Files }

NoFile == [name |-> "", result |-> ConfigFailure("")]

\* rendered.dirty: a checkbox of the list shows the user's click, not the
\* $completed of its task.
NoRender == [has |-> FALSE, config |-> Undefined, data |-> 0, dirty |-> FALSE]

\* The view as constructed: config = DEFAULT_CONFIG, nothing else set.
NewView ==
    [phase |-> "created", config |-> DEFAULT_CONFIG, configFile |-> FALSE,
     updateRef |-> FALSE, debounceTimer |-> 0, taskList |-> FALSE,
     shown |-> "none", error |-> "", rendered |-> NoRender, toggling |-> {}]

NoHist ==
    [lastNotify |-> 0 - 1, bursts |-> 0, burstSize |-> 0, passes |-> 0,
     cancelled |-> 0, passAt |-> 0, passNotify |-> 0, passSize |-> 0,
     cfgError |-> FALSE, loadedBy |-> ""]

\* The variables of the view in the specifications that have no view.
NoView ==
    /\ view = NewView
    /\ dc = [exists |-> FALSE, initialized |-> FALSE, onInitialized |-> 0,
             onUpdate |-> 0, data |-> 0]
    /\ timers = {}
    /\ clock = [now |-> 0, nextId |-> 1]
    /\ file = NoFile
    /\ hist = NoHist

NoQry == [pc |-> "idle", kind |-> "none", value |-> <<>>, source |-> Undefined,
          view |-> Undefined, out |-> <<>>]

NoAgg == [pc |-> "idle", index |-> <<>>, view |-> Undefined, tasks |-> <<>>,
          groups |-> <<>>, sorted |-> <<>>, rendered |-> <<>>]

\* The variables of query.ts and of the aggregation in the specifications
\* that have neither.
NoPure ==
    /\ qry = NoQry
    /\ agg = NoAgg

(***************************************************************************)
(* toggle.ts                                                               *)
(***************************************************************************)
\* content.split('\n')
RECURSIVE split(_)
split(s) ==
    IF \A i \in 1..Len(s) : s[i] # LF
    THEN <<s>>
    ELSE LET k == CHOOSE i \in 1..Len(s) : s[i] = LF /\ \A j \in 1..(i - 1) : s[j] # LF
         IN  <<SubSeq(s, 1, k - 1)>> \o split(SubSeq(s, k + 1, Len(s)))

\* lines.join('\n')
RECURSIVE join(_)
join(lines) ==
    IF Len(lines) = 0 THEN <<>>
    ELSE IF Len(lines) = 1 THEN lines[1]
    ELSE lines[1] \o <<LF>> \o join(Tail(lines))

NoMatch == [matched |-> FALSE, g1 |-> <<>>, g2 |-> "", g3 |-> <<>>]

\* /^(\s*[-*+]\s*\[)([ xX])(\].*)/ : white space, a list marker, white space,
\* "[", the marker character, "]", and then every character up to the first
\* line terminator. The classes that follow one another are disjoint, so the
\* greedy match is the only match.
CHECKBOX_REGEX(line) ==
    LET n == Len(line)
        b == spaceRun(line, 1) + 1                          \* the list marker
        o == IF b <= n THEN b + spaceRun(line, b + 1) + 1   \* the "["
                       ELSE n + 1
        m == o + 1                                          \* the marker character
        e == o + 2                                          \* the "]"
    IN  IF /\ e <= n
           /\ line[b] \in {"-", "*", "+"}
           /\ line[o] = "["
           /\ line[m] \in {" ", "x", "X"}
           /\ line[e] = "]"
        THEN [matched |-> TRUE,
              g1 |-> SubSeq(line, 1, o),
              g2 |-> line[m],
              g3 |-> SubSeq(line, e, e + dotRun(line, e + 1))]
        ELSE NoMatch

\* The paths of the vault: a document, a folder, and a path that names nothing.
Paths == {"a.md", "dir", "gone"}

\* app.vault.getAbstractFileByPath(path), as the kind of what it returns.
getAbstractFileByPath(v, path) ==
    IF path \in DOMAIN v THEN "TFile"
    ELSE IF path = "dir" THEN "TFolder"
    ELSE "null"

\* processCallback without its "is not a checkbox" throw: a line that does not
\* match is written back as it is.
processCallbackNoCheck(content, task, newMarker) ==
    LET lines == split(content)
    IN  IF task.line < 0 \/ task.line >= Len(lines)
        THEN [threw |-> TRUE, error |-> "Invalid line number", content |-> content]
        ELSE [threw |-> FALSE, error |-> "", content |-> content]

\* The callback toggleTask hands to app.vault.process: the new content, or the
\* error it throws.
processCallback(content, task, newMarker) ==
    LET lines == split(content)
    IN  IF task.line < 0 \/ task.line >= Len(lines)
        THEN [threw |-> TRUE, error |-> "Invalid line number", content |-> content]
        ELSE LET line  == lines[task.line + 1]
                 match == CHECKBOX_REGEX(line)
             IN  IF ~match.matched
                 THEN [threw |-> TRUE, error |-> "Line is not a checkbox", content |-> content]
                 ELSE [threw   |-> FALSE,
                       error   |-> "",
                       content |-> join([lines EXCEPT ![task.line + 1] =
                                            match.g1 \o <<newMarker>> \o match.g3])]

Failure(message) == [success |-> FALSE, error |-> message, newStatus |-> "undefined"]

Success(status) ==
    [success |-> TRUE, error |-> "", newStatus |-> IF status THEN "true" ELSE "false"]

\* toggleTask that hands its callback the content it saw before the edits of
\* another writer, not the content of the moment.
toggleTaskFromCache(v, task) ==
    LET kind      == getAbstractFileByPath(v, task.file)
        newStatus == ~task.completed
        newMarker == IF newStatus THEN "x" ELSE " "
        cached    == IF lastOp.op = "edit" THEN lastOp.seen ELSE v
    IN  IF kind = "null"
        THEN [result |-> Failure("File not found"), vault |-> v, reads |-> 0, writes |-> 0]
        ELSE IF kind # "TFile"
        THEN [result |-> Failure("Not a file"), vault |-> v, reads |-> 0, writes |-> 0]
        ELSE LET r == processCallback(cached[task.file], task, newMarker)
             IN  IF r.threw
                 THEN [result |-> Failure(r.error), vault |-> v, reads |-> 1, writes |-> 0]
                 ELSE [result |-> Success(newStatus),
                       vault  |-> [v EXCEPT ![task.file] = r.content],
                       reads  |-> 1,
                       writes |-> 1]

\* toggleTask(app, task) on vault v: its result, the vault it leaves, and the
\* number of document reads and writes it made. app.vault.process reads the
\* document, calls the callback, and writes what it returns unless it throws.
toggleTask(v, task) ==
    LET kind      == getAbstractFileByPath(v, task.file)
        newStatus == ~task.completed
        newMarker == IF newStatus THEN "x" ELSE " "
    IN  IF kind = "null"
        THEN [result |-> Failure("File not found"), vault |-> v, reads |-> 0, writes |-> 0]
        ELSE IF kind # "TFile"
        THEN [result |-> Failure("Not a file"), vault |-> v, reads |-> 0, writes |-> 0]
        ELSE LET r == processCallback(v[task.file], task, newMarker)
             IN  IF r.threw
                 THEN [result |-> Failure(r.error), vault |-> v, reads |-> 1, writes |-> 0]
                 ELSE [result |-> Success(newStatus),
                       vault  |-> [v EXCEPT ![task.file] = r.content],
                       reads  |-> 1,
                       writes |-> 1]

\* setTaskStatus without its early return.
setTaskStatusAlwaysToggle(v, task, completed) == toggleTask(v, task)

\* setTaskStatus(app, task, completed)
setTaskStatus(v, task, completed) ==
    IF task.completed = completed
    THEN [result |-> Success(completed), vault |-> v, reads |-> 0, writes |-> 0]
    ELSE toggleTask(v, task)

(***************************************************************************)
(* The documents and tasks the toggle operations are exercised on          *)
(***************************************************************************)
\* "- [ ] a" ending in a carriage return (a line of a CRLF document),
\* "- [X] a", and the empty line, which is no checkbox.
LineOpenCR == <<"-", " ", "[", " ", "]", " ", "a", CR>>

LineDone == <<"-", " ", "[", "X", "]", " ", "a">>

LineEmpty == <<>>

LinePool == {LineOpenCR, LineDone, LineEmpty}

Docs == { join(ls) : ls \in UNION { [1..n -> LinePool] : n \in 1..MaxLines } }

TaskLines == (0 - 1)..(MaxLines + 2)

\* ToggleableTask: $file, $line, $completed.
Tasks ==
    [file : {"a.md"}, line : TaskLines, completed : BOOLEAN]
    \cup [file : {"dir", "gone"}, line : {0}, completed : BOOLEAN]

\* The tasks setTaskStatus is called with: those of the first two lines, and
\* those of the paths that are no document.
StatusTasks == { t \in Tasks : t.line \in 0..1 }

\* $completed as the indexing engine reports it for line L of content: the
\* status character of the checkbox is "x" or "X".
observedCompleted(content, L) ==
    LET lines == split(content)
    IN  /\ L >= 0
        /\ L < Len(lines)
        /\ CHECKBOX_REGEX(lines[L + 1]).matched
        /\ CHECKBOX_REGEX(lines[L + 1]).g2 \in {"x", "X"}

\* Whether task is what the engine reports for a checkbox line of vault v.
isFresh(v, task) ==
    /\ task.file \in DOMAIN v
    /\ task.line >= 0
    /\ task.line < Len(split(v[task.file]))
    /\ CHECKBOX_REGEX(split(v[task.file])[task.line + 1]).matched
    /\ task.completed = observedCompleted(v[task.file], task.line)

NoTask == [file |-> "gone", line |-> 0, completed |-> FALSE]

NoOp ==
    [op |-> "none", task |-> NoTask, desired |-> FALSE, pre |-> vault,
     result |-> Failure(""), reads |-> 0, writes |-> 0,
     seen |-> vault, edited |-> {}, edits |-> 0]

\* history: the vault before the edits of another writer that came since
\* the last toggle, the zero-indexed lines they wrote, and their number.
editsSince(field, none) == IF lastOp.op = "edit" THEN lastOp[field] ELSE none

NoChain == [file |-> "", line |-> 0, orig |-> <<>>, n |-> 0]

\* The run of successful toggles of one task, each with the flag the engine
\* reports at the time: its first line text and its length (1 or 2).
nextChain(v, task, success) ==
    IF ~(success /\ isFresh(v, task)) THEN NoChain
    ELSE IF chain.n = 1 /\ chain.file = task.file /\ chain.line = task.line
    THEN [chain EXCEPT !.n = 2]
    ELSE [file |-> task.file, line |-> task.line,
          orig |-> split(v[task.file])[task.line + 1], n |-> 1]

NoBatch ==
    [pc |-> "idle", tasks |-> <<>>, st |-> <<>>, pend |-> <<>>,
     results |-> <<>>, returned |-> <<>>]

InitToggle ==
    /\ vault \in [{"a.md"} -> Docs]
    /\ lastOp = NoOp
    /\ chain = NoChain
    /\ batch = NoBatch
    /\ cfg = NoCfg
    /\ NoView
    /\ NoPure

\* A caller (the view's handleToggle, or any other) awaits toggleTask(app, task).
ToggleTask ==
    \E task \in Tasks :
        LET o == toggleTask(vault, task)
        IN  /\ vault' = o.vault
            /\ lastOp' = [op |-> "toggleTask", task |-> task, desired |-> FALSE,
                          pre |-> vault, result |-> o.result,
                          reads |-> o.reads, writes |-> o.writes,
                          seen |-> editsSince("seen", vault),
                          edited |-> editsSince("edited", {}),
                          edits |-> editsSince("edits", 0)]
            /\ chain' = nextChain(vault, task, o.result.success)
            /\ UNCHANGED <<batch, cfg, viewVars, pureVars>>

\* A caller awaits setTaskStatus(app, task, completed).
SetTaskStatus ==
    \E task \in StatusTasks, completed \in BOOLEAN :
        LET o == setTaskStatus(vault, task, completed)
        IN  /\ vault' = o.vault
            /\ lastOp' = [op |-> "setTaskStatus", task |-> task, desired |-> completed,
                          pre |-> vault, result |-> o.result,
                          reads |-> o.reads, writes |-> o.writes,
                          seen |-> vault, edited |-> {}, edits |-> 0]
            /\ chain' = NoChain
            /\ UNCHANGED <<batch, cfg, viewVars, pureVars>>

NextToggle == ToggleTask \/ SetTaskStatus

SpecToggle == InitToggle /\ [][NextToggle]_vars

(***************************************************************************)
(* Claims on toggle.ts, under SpecToggle                                   *)
(***************************************************************************)
\* The zero-indexed line of s that holds index k.
lineOf(s, k) == Cardinality({ i \in 1..(k - 1) : s[i] = LF })

\* C1: a successful toggleTask replaces only the marker character between
\* "[" and "]" on line L: the document keeps its length, and every character
\* but that one, on line L and on every other line, is what it was.
C1_ToggleReplacesOnlyMarker ==
    (lastOp.op = "toggleTask" /\ lastOp.result.success) =>
        LET before == lastOp.pre[lastOp.task.file]
            after  == vault[lastOp.task.file]
        IN  /\ Len(after) = Len(before)
            /\ \E k \in 2..(Len(before) - 1) :
                   /\ before[k - 1] = "["
                   /\ before[k + 1] = "]"
                   /\ lineOf(before, k) = lastOp.task.line
                   /\ \A j \in 1..Len(before) : j # k => after[j] = before[j]

\* C2: after two successful toggles in sequence of the same task, each with
\* the completion flag the engine reports for the content of the time, the
\* target line is its original text, character for character.
C2_DoubleToggleRestoresLine ==
    chain.n = 2 => split(vault[chain.file])[chain.line + 1] = chain.orig

\* The failure the claim C3 names for task on vault v, "" when it names none.
expectedFailure(v, task) ==
    IF task.file = "gone" THEN "File not found"
    ELSE IF task.file = "dir" THEN "Not a file"
    ELSE IF task.line < 0 \/ task.line > lineOf(v[task.file], Len(v[task.file]) + 1)
    THEN "Invalid line number"
    ELSE IF ~CHECKBOX_REGEX(split(v[task.file])[task.line + 1]).matched
    THEN "Line is not a checkbox"
    ELSE ""

\* C3: toggleTask fails exactly when the path names nothing, names a folder,
\* the line is outside 0..lineCount-1 or the line is no checkbox; it then
\* returns the failure of that kind, writes nothing and leaves the document
\* as it was.
C3_FailedToggleWritesNothing ==
    lastOp.op = "toggleTask" =>
        LET e == expectedFailure(lastOp.pre, lastOp.task)
        IN  /\ e # "" => lastOp.result = Failure(e)
            /\ ~lastOp.result.success =>
                   /\ e # ""
                   /\ lastOp.writes = 0
                   /\ vault = lastOp.pre

\* A toggle for line 5 of a 3-line document has failed.
C3_Witness ==
    /\ lastOp.op = "toggleTask"
    /\ lastOp.task.file = "a.md"
    /\ lastOp.task.line = 5
    /\ Len(split(lastOp.pre["a.md"])) = 3
    /\ lastOp.result = Failure("Invalid line number")
    /\ vault = lastOp.pre

\* C4: setTaskStatus(task, desired) reads and writes no document and returns
\* success when task.$completed equals desired, whatever the task's file;
\* otherwise its result and its effect are those of toggleTask(task).
C4_SetStatusNoOpOrToggle ==
    lastOp.op = "setTaskStatus" =>
        IF lastOp.task.completed = lastOp.desired
        THEN /\ lastOp.reads = 0
             /\ lastOp.writes = 0
             /\ vault = lastOp.pre
             /\ lastOp.result = Success(lastOp.desired)
        ELSE LET o == toggleTask(lastOp.pre, lastOp.task)
             IN  /\ lastOp.result = o.result
                 /\ vault = o.vault
                 /\ lastOp.reads = o.reads
                 /\ lastOp.writes = o.writes

\* setTaskStatus has returned its no-op success for a task whose file does
\* not exist.
C4_Witness ==
    /\ lastOp.op = "setTaskStatus"
    /\ lastOp.task.file = "gone"
    /\ lastOp.task.completed = lastOp.desired
    /\ lastOp.result.success
    /\ lastOp.reads = 0

(***************************************************************************)
(* toggle.ts with another writer: edits between the toggles                *)
(***************************************************************************)
\* The lines another writer writes: a checkbox ending in a carriage return,
\* and a line that is no checkbox.
LineEditedCR == <<"-", " ", "[", "x", "]", " ", "b", CR>>

LineNote == <<"b">>

EditLines == {LineEditedCR, LineNote}

\* The documents the writers start from: two lines of the pool.
EditDocs == { join(ls) : ls \in [1..2 -> LinePool] }

InitEdit ==
    /\ vault \in [{"a.md"} -> EditDocs]
    /\ lastOp = NoOp
    /\ chain = NoChain
    /\ batch = NoBatch
    /\ cfg = NoCfg
    /\ NoView
    /\ NoPure

\* Another writer (the editor, a sync, another plugin) replaces one line of
\* the document.
ExternalEdit ==
    /\ editsSince("edits", 0) < MaxEdits
    /\ \E l \in 1..Len(split(vault["a.md"])), new \in EditLines :
           /\ split(vault["a.md"])[l] # new
           /\ vault' = [vault EXCEPT !["a.md"] = join([split(@) EXCEPT ![l] = new])]
           /\ lastOp' = [op |-> "edit", task |-> NoTask, desired |-> FALSE,
                         pre |-> vault, result |-> Failure(""),
                         reads |-> 0, writes |-> 0,
                         seen |-> editsSince("seen", vault),
                         edited |-> editsSince("edited", {}) \cup {l - 1},
                         edits |-> editsSince("edits", 0) + 1]
    /\ chain' = NoChain
    /\ UNCHANGED <<batch, cfg, viewVars, pureVars>>

NextEdit == ToggleTask \/ ExternalEdit

SpecEdit == InitEdit /\ [][NextEdit]_vars

\* C16: a toggle that follows the edits of another writer is computed from
\* the content of the moment of its read-modify-write: the document keeps
\* its lines, and every line the other writer wrote, but the target line,
\* has the content the other writer gave it.
C16_ToggleKeepsExternalEdits ==
    (lastOp.op = "toggleTask" /\ lastOp.edits > 0 /\ lastOp.task.file = "a.md") =>
        LET before == split(lastOp.pre["a.md"])
            after  == split(vault["a.md"])
        IN  /\ Len(after) = Len(before)
            /\ \A l \in lastOp.edited :
                   l # lastOp.task.line => after[l + 1] = before[l + 1]

\* A toggle has changed its line after another writer changed another line,
\* to a line ending in a carriage return.
C16_Witness ==
    /\ lastOp.op = "toggleTask"
    /\ lastOp.result.success
    /\ lastOp.task.line = 0
    /\ lastOp.edited = {1}
    /\ split(lastOp.seen["a.md"])[2] # LineEditedCR
    /\ split(vault["a.md"])[2] = LineEditedCR
    /\ split(vault["a.md"])[1] # split(lastOp.pre["a.md"])[1]

(***************************************************************************)
(* toggleTasks: one batch, each request's toggleTask awaited in turn       *)
(***************************************************************************)
BatchDocs == { join(<<LineOpenCR, LineDone>>), join(<<LineEmpty, LineDone>>) }

BatchTasks ==
    [file : {"a.md", "b.md"}, line : 0..1, completed : BOOLEAN]
    \cup {[file |-> "gone", line |-> 0, completed |-> FALSE]}

BatchInputs == UNION { [1..n -> BatchTasks] : n \in 0..MaxBatch }

\* A loop without its await (the requests mapped to promises at once): any
\* request not yet called may be called.
mayCallUnawaited(b, i) == b.st[i] = "pending"

\* for (const task of tasks) { const result = await toggleTask(app, task); ... }:
\* the loop calls toggleTask for request i once the results of all the
\* requests before it have been awaited and pushed.
mayCall(b, i) ==
    /\ b.st[i] = "pending"
    /\ \A j \in 1..(i - 1) : b.st[j] = "done"

InitBatch ==
    /\ vault \in [{"a.md", "b.md"} -> BatchDocs]
    /\ lastOp = NoOp
    /\ chain = NoChain
    /\ batch = NoBatch
    /\ cfg = NoCfg
    /\ NoView
    /\ NoPure

\* A caller calls toggleTasks(app, tasks): results = [].
BatchBegin ==
    /\ batch.pc = "idle"
    /\ \E tasks \in BatchInputs :
           batch' = [pc |-> "loop", tasks |-> tasks,
                     st |-> [i \in 1..Len(tasks) |-> "pending"],
                     pend |-> [i \in 1..Len(tasks) |-> Failure("")],
                     results |-> <<>>, returned |-> <<>>]
    /\ UNCHANGED <<vault, lastOp, chain, cfg, viewVars, pureVars>>

\* The loop calls toggleTask for request i; the call is now awaited.
BatchCall ==
    /\ batch.pc = "loop"
    /\ \E i \in 1..Len(batch.tasks) :
           /\ mayCall(batch, i)
           /\ batch' = [batch EXCEPT !.st[i] = "called"]
    /\ UNCHANGED <<vault, lastOp, chain, cfg, viewVars, pureVars>>

\* The toggleTask of request i does its read-modify-write, or fails.
BatchProcess ==
    /\ batch.pc = "loop"
    /\ \E i \in 1..Len(batch.tasks) :
           /\ batch.st[i] = "called"
           /\ LET o == toggleTask(vault, batch.tasks[i])
              IN  /\ vault' = o.vault
                  /\ batch' = [batch EXCEPT !.st[i] = "processed", !.pend[i] = o.result]
    /\ UNCHANGED <<lastOp, chain, cfg, viewVars, pureVars>>

\* The await of request i returns: results.push(result).
BatchPush ==
    /\ batch.pc = "loop"
    /\ \E i \in 1..Len(batch.tasks) :
           /\ batch.st[i] = "processed"
           /\ batch' = [batch EXCEPT
                           !.st[i] = "done",
                           !.results = Append(@, [req |-> i, result |-> batch.pend[i]])]
    /\ UNCHANGED <<vault, lastOp, chain, cfg, viewVars, pureVars>>

\* The loop is over: return results.
BatchReturn ==
    /\ batch.pc = "loop"
    /\ \A i \in 1..Len(batch.tasks) : batch.st[i] = "done"
    /\ batch' = [batch EXCEPT !.pc = "done", !.returned = batch.results]
    /\ UNCHANGED <<vault, lastOp, chain, cfg, viewVars, pureVars>>

NextBatch == BatchBegin \/ BatchCall \/ BatchProcess \/ BatchPush \/ BatchReturn

SpecBatch == InitBatch /\ [][NextBatch]_vars

\* C5: toggleTasks works on one request at a time, in input order: no
\* request is called before every earlier one is done; a failed request
\* stops nothing; the returned sequence has one result per request, the
\* k-th being request k's.
C5_BatchSequentialInOrder ==
    /\ \A i, j \in 1..Len(batch.tasks) :
           (i < j /\ batch.st[j] # "pending") => batch.st[i] = "done"
    /\ \A k \in 1..Len(batch.results) : batch.results[k].req = k
    /\ batch.pc = "done" =>
           /\ Len(batch.returned) = Len(batch.tasks)
           /\ \A k \in 1..Len(batch.tasks) :
                  /\ batch.returned[k].req = k
                  /\ batch.returned[k].result = batch.pend[k]
                  /\ batch.returned[k].result # Failure("")

\* A batch of two has returned: its first request failed and its second,
\* on another document, succeeded.
C5_Witness ==
    /\ batch.pc = "done"
    /\ Len(batch.tasks) = 2
    /\ batch.tasks[1].file = "a.md"
    /\ batch.tasks[2].file = "b.md"
    /\ ~batch.returned[1].result.success
    /\ batch.returned[2].result.success

(***************************************************************************)
(* The selection definitions and documents parseConfig is exercised on     *)
(***************************************************************************)
Filter(property, operator, value) ==
    Obj(<<Entry(K_property, Str(property)),
          Entry(K_operator, Str(operator)),
          Entry(K_value, Str(value))>>)

FilterPool ==
    { Filter(<<"p">>, <<"=">>, <<"x">>),
      Filter(<<"$", "t">>, S_contains, <<"#", "a">>),
      Filter(<<"p">>, <<"!", "=">>, <<>>) }

FilterSeqs == UNION { [1..n -> FilterPool] : n \in 0..MaxFilters }

\* source.folder: a name, a name with a quote in it, a backslash and a line
\* feed, and the empty string.
FolderPool == { <<"P">>, <<"a", "\"", "b">>, <<"\\", LF>>, <<>> }

\* A source: without the folder property, with it undefined, or with a string.
Sources ==
    { Obj(<<Entry(K_filters, Arr(fs))>>) : fs \in FilterSeqs }
    \cup { Obj(<<Entry(K_folder, Undefined), Entry(K_filters, Arr(fs))>>) : fs \in FilterSeqs }
    \cup { Obj(<<Entry(K_folder, Str(d)), Entry(K_filters, Arr(fs))>>) :
             d \in FolderPool, fs \in FilterSeqs }

Views ==
    { ViewConfig(FALSE, S_file, S_desc), ViewConfig(TRUE, S_file, S_asc),
      ViewConfig(TRUE, <<"m">>, S_desc) }

\* The valid selection definitions: version 1 or 12.
ValidConfigs == { Config(Num(n), src, vw) : n \in {2, 24}, src \in Sources, vw \in Views }

\* The version a hand-written document may carry: none, 0, -1, 1, 1.5, 2,
\* 2.5, the string "1", true and null.
RawVersions ==
    { Undefined, Num(0), Num(0 - 2), Num(2), Num(3), Num(4), Num(5),
      Str(<<"1">>), Bool(TRUE), Null }

RawSources == { Obj(<<Entry(K_filters, Arr(<<>>))>>), Obj(<<Entry(K_folder, Num(2))>>) }

RawViews == { ViewConfig(FALSE, S_file, S_desc), Obj(<<Entry(K_sortBy, Str(S_file))>>) }

\* The documents of hand-written files: objects with or without a version, a
\* source and a view of their own, and values that are no object.
RawDocs ==
    { Obj(<<Entry(K_version, ver), Entry(K_source, src), Entry(K_view, vw)>>) :
        ver \in RawVersions, src \in RawSources, vw \in RawViews }
    \cup { Arr(<<>>), Null, Num(2), Str(<<"x">>) }

\* Files whose text is no JSON: an object that is never closed, and a string
\* with a bare quote in it.
MalformedTexts ==
    { <<Punct("{"), Tok("str", K_version), Punct(":"), Tok("num", <<"1">>)>>,
      <<Tok("str", <<"a", "\"", "b">>)>> }

InitConfig ==
    /\ vault = [f \in {"a.md"} |-> <<>>]
    /\ lastOp = NoOp
    /\ chain = NoChain
    /\ batch = NoBatch
    /\ NoView
    /\ NoPure
    /\ \/ \E x \in ValidConfigs : cfg = [NoCfg EXCEPT !.pc = "doc", !.kind = "config", !.doc = x]
       \/ \E d \in RawDocs : cfg = [NoCfg EXCEPT !.pc = "doc", !.kind = "raw", !.doc = d]
       \/ \E t \in MalformedTexts : cfg = [NoCfg EXCEPT !.pc = "text", !.kind = "text", !.text = t]

\* The plugin writes a selection definition to its file: serializeConfig(config).
SerializeConfig ==
    /\ cfg.pc = "doc"
    /\ cfg.kind = "config"
    /\ cfg' = [cfg EXCEPT !.pc = "text", !.text = serializeConfig(cfg.doc)]
    /\ UNCHANGED <<vault, lastOp, chain, batch, viewVars, pureVars>>

\* A user writes a document to the file as JSON text.
AuthorFile ==
    /\ cfg.pc = "doc"
    /\ cfg.kind = "raw"
    /\ cfg' = [cfg EXCEPT !.pc = "text", !.text = stringify(cfg.doc)]
    /\ UNCHANGED <<vault, lastOp, chain, batch, viewVars, pureVars>>

\* The file is loaded: parseConfig(content).
ParseConfig ==
    /\ cfg.pc = "text"
    /\ cfg' = [cfg EXCEPT !.pc = "parsed", !.out = parseConfig(cfg.text)]
    /\ UNCHANGED <<vault, lastOp, chain, batch, viewVars, pureVars>>

NextConfig == SerializeConfig \/ AuthorFile \/ ParseConfig

SpecConfig == InitConfig /\ [][NextConfig]_vars

\* Whether version is a number that is an integer and at least 1.
isPositiveInteger(version) ==
    version.t = "number" /\ version.n >= 2 /\ version.n % 2 = 0

\* C9: parseConfig rejects, with the missing-or-invalid-version error and no
\* config, every object whose version is absent or no positive integer; it
\* accepts an object only if its version is an integer >= 1.
C9_VersionMustBePositiveInteger ==
    (cfg.pc = "parsed" /\ cfg.kind = "raw" /\ cfg.doc.t = "object") =>
        /\ ~isPositiveInteger(get(cfg.doc, K_version)) =>
               cfg.out = ConfigFailure("Missing or invalid version")
        /\ cfg.out.success => isPositiveInteger(get(cfg.doc, K_version))

\* v without the properties whose value is undefined, at every depth.
RECURSIVE defined(_)
defined(v) ==
    CASE v.t = "array"  -> Arr([i \in 1..Len(v.a) |-> defined(v.a[i])])
      [] v.t = "object" ->
            LET kept == SelectSeq(v.o, LAMBDA e : e.v.t # "undefined")
            IN  Obj([i \in 1..Len(kept) |-> Entry(kept[i].k, defined(kept[i].v))])
      [] OTHER          -> v

\* C10: for every valid selection definition x, parseConfig(serializeConfig(x))
\* succeeds and its config is x: the same version, folder, view, and filters
\* in the same order.
C10_ParseSerializeRoundTrip ==
    (cfg.pc = "parsed" /\ cfg.kind = "config") =>
        /\ cfg.out.success
        /\ cfg.out.config = defined(cfg.doc)

\* A definition with a folder that needs escaping and two different filters
\* has been serialized and parsed back.
C10_Witness ==
    /\ cfg.pc = "parsed"
    /\ cfg.kind = "config"
    /\ cfg.out.success
    /\ get(get(cfg.doc, K_source), K_folder) = Str(<<"a", "\"", "b">>)
    /\ Len(get(get(cfg.doc, K_source), K_filters).a) = 2
    /\ get(get(cfg.doc, K_source), K_filters).a[1] # get(get(cfg.doc, K_source), K_filters).a[2]
    /\ get(get(cfg.out.config, K_source), K_folder) = Str(<<"a", "\"", "b">>)

(***************************************************************************)
(* view.ts: the life cycle of the view, the engine and the timers          *)
(***************************************************************************)
\* showError(message)
showError(v, message) == [v EXCEPT !.shown = "error", !.error = message]

\* loadConfig(): the path of the leaf's state names the file, which exists.
loadConfig(v, f) ==
    IF ~f.result.success
    THEN showError([v EXCEPT !.configFile = TRUE], "Invalid config")
    ELSE [v EXCEPT !.configFile = TRUE, !.config = f.result.config]

\* renderTaskList(groups): the list is shown, and updated if there is one.
renderTaskList(v, d) ==
    [v EXCEPT !.shown = "list",
              !.rendered = IF v.taskList
                           THEN [has |-> TRUE, config |-> v.config, data |-> d.data,
                                 dirty |-> FALSE]
                           ELSE @]

\* refresh without its early return.
refreshNoGuard(v, d, throws) ==
    IF throws THEN showError(v, "Query failed")
    ELSE renderTaskList(v, d)

\* refresh(): throws says whether dc.query throws.
refresh(v, d, throws) ==
    IF ~d.exists \/ ~d.initialized THEN v
    ELSE IF throws THEN showError(v, "Query failed")
    ELSE renderTaskList(v, d)

\* scheduleRefresh without its clearTimeout.
scheduleRefreshNoClear(v, ts, c) ==
    [view   |-> [v EXCEPT !.debounceTimer = c.nextId],
     timers |-> ts \cup {[id |-> c.nextId, due |-> c.now + DEBOUNCE_MS]},
     clock  |-> [c EXCEPT !.nextId = @ + 1]]

\* scheduleRefresh()
scheduleRefresh(v, ts, c) ==
    [view   |-> [v EXCEPT !.debounceTimer = c.nextId],
     timers |-> (IF v.debounceTimer # 0
                 THEN { t \in ts : t.id # v.debounceTimer } ELSE ts)
                \cup {[id |-> c.nextId, due |-> c.now + DEBOUNCE_MS]},
     clock  |-> [c EXCEPT !.nextId = @ + 1]]

\* onDatacoreReady(): refresh, then subscribe to 'update'.
onDatacoreReady(v, d, throws) ==
    [view |-> [refresh(v, d, throws) EXCEPT !.updateRef = d.exists],
     dc   |-> IF d.exists THEN [d EXCEPT !.onUpdate = @ + 1] ELSE d]

\* history: the outcome of a config load, and the handler that loaded.
loaded(h, f, by) == [h EXCEPT !.cfgError = ~f.result.success, !.loadedBy = by]

\* history: scheduleRefresh is called at time now. The call opens a burst
\* unless it comes before the quiet interval since the last one has elapsed.
notified(h, now) ==
    IF h.lastNotify < 0 \/ now - h.lastNotify >= DEBOUNCE_MS
    THEN [h EXCEPT !.lastNotify = now, !.bursts = @ + 1, !.burstSize = 1]
    ELSE [h EXCEPT !.lastNotify = now, !.burstSize = @ + 1]

InitView ==
    /\ vault = [f \in {"a.md"} |-> <<>>]
    /\ lastOp = NoOp
    /\ chain = NoChain
    /\ batch = NoBatch
    /\ cfg = NoCfg
    /\ NoPure
    /\ view = NewView
    /\ \E e \in BOOLEAN, i \in BOOLEAN :
           dc = [exists |-> e, initialized |-> e /\ i, onInitialized |-> 0,
                 onUpdate |-> 0, data |-> 0]
    /\ timers = {}
    /\ clock = [now |-> 0, nextId |-> 1]
    /\ file \in FileStates
    /\ hist = NoHist

\* onOpen(): the containers and the TaskList, loadConfig, the config watcher,
\* and then the engine: absent, awaited, or ready.
OnOpen ==
    /\ view.phase = "created"
    /\ \E throws \in BOOLEAN :
           LET v1 == loadConfig([view EXCEPT !.phase = "open", !.shown = "loading",
                                             !.taskList = TRUE], file)
               r  == onDatacoreReady(v1, dc, throws)
           IN  IF ~dc.exists
               THEN /\ view' = showError(v1, "Datacore plugin is required")
                    /\ dc' = dc
               ELSE IF ~dc.initialized
               THEN /\ view' = v1
                    /\ dc' = [dc EXCEPT !.onInitialized = @ + 1]
               ELSE /\ view' = r.view
                    /\ dc' = r.dc
    /\ hist' = loaded(hist, file, "onOpen")
    /\ UNCHANGED <<vault, lastOp, chain, batch, cfg, pureVars, timers, clock, file>>

\* The engine becomes initialized and fires 'initialized': the callback of
\* onOpen, if registered, unsubscribes itself and calls onDatacoreReady.
EngineInitialized ==
    /\ dc.exists
    /\ ~dc.initialized
    /\ \E throws \in BOOLEAN :
           LET d1 == [dc EXCEPT !.initialized = TRUE]
               r  == onDatacoreReady(view, [d1 EXCEPT !.onInitialized = @ - 1], throws)
           IN  IF dc.onInitialized > 0
               THEN view' = r.view /\ dc' = r.dc
               ELSE view' = view /\ dc' = d1
    /\ UNCHANGED <<vault, lastOp, chain, batch, cfg, pureVars, timers, clock, file, hist>>

\* The engine reindexes and fires 'update': the callback of onDatacoreReady,
\* if registered, calls scheduleRefresh. A timer whose time has come runs
\* before an event of the same instant.
EngineUpdate ==
    /\ dc.exists
    /\ dc.initialized
    /\ dc.data < MaxUpdates
    /\ \A t \in timers : t.due > clock.now
    /\ dc' = [dc EXCEPT !.data = @ + 1]
    /\ LET s == scheduleRefresh(view, timers, clock)
       IN  IF dc.onUpdate > 0
           THEN /\ view' = s.view
                /\ timers' = s.timers
                /\ clock' = s.clock
                /\ hist' = notified(hist, clock.now)
           ELSE UNCHANGED <<view, timers, clock, hist>>
    /\ UNCHANGED <<vault, lastOp, chain, batch, cfg, pureVars, file>>

\* A timer's time has come: the callback of scheduleRefresh calls refresh.
TimerFire ==
    /\ \E t \in timers, throws \in BOOLEAN :
           /\ t.due <= clock.now
           /\ timers' = timers \ {t}
           /\ view' = refresh(view, dc, throws)
           /\ hist' = [hist EXCEPT !.passes = @ + 1, !.passAt = clock.now,
                                   !.passNotify = hist.lastNotify,
                                   !.passSize = hist.burstSize]
    /\ UNCHANGED <<vault, lastOp, chain, batch, cfg, pureVars, dc, clock, file>>

\* Time passes, up to the next timer's time.
Tick ==
    /\ clock.now < MaxTime
    /\ \A t \in timers : t.due > clock.now
    /\ LET next == clock.now + TickMs
           dues == { t.due : t \in timers }
       IN  clock' = [clock EXCEPT !.now =
                        IF \E d \in dues : d < next
                        THEN CHOOSE d \in dues : \A e \in dues : d <= e
                        ELSE next]
    /\ UNCHANGED <<vault, lastOp, chain, batch, cfg, pureVars, view, dc, timers, file, hist>>

\* onClose(): offref(updateRef), clearTimeout(debounceTimer), destroy the
\* TaskList. The config watcher goes with the view's registered events.
OnClose ==
    /\ view.phase = "open"
    /\ view' = [view EXCEPT !.phase = "closed", !.taskList = FALSE, !.rendered = NoRender]
    /\ dc' = IF view.updateRef /\ dc.exists /\ dc.onUpdate > 0
             THEN [dc EXCEPT !.onUpdate = @ - 1] ELSE dc
    /\ timers' = IF view.debounceTimer # 0
                 THEN { t \in timers : t.id # view.debounceTimer } ELSE timers
    /\ hist' = [hist EXCEPT !.cancelled =
                    @ + Cardinality({ t \in timers : t.id = view.debounceTimer })]
    /\ UNCHANGED <<vault, lastOp, chain, batch, cfg, pureVars, clock, file>>

\* onLoadFile(file): loadConfig, then refresh.
OnLoadFile ==
    /\ view.phase = "open"
    /\ \E throws \in BOOLEAN : view' = refresh(loadConfig(view, file), dc, throws)
    /\ hist' = loaded(hist, file, "onLoadFile")
    /\ UNCHANGED <<vault, lastOp, chain, batch, cfg, pureVars, dc, timers, clock, file>>

\* The .taskbase file is modified; the watcher of an open view that has its
\* configFile calls handleConfigChange: loadConfig, then refresh.
ConfigModified ==
    /\ \E f \in FileStates, throws \in BOOLEAN :
           /\ f # file
           /\ file' = f
           /\ IF view.phase = "open" /\ view.configFile
              THEN /\ view' = refresh(loadConfig(view, f), dc, throws)
                   /\ hist' = loaded(hist, f, "modify")
              ELSE UNCHANGED <<view, hist>>
    /\ UNCHANGED <<vault, lastOp, chain, batch, cfg, pureVars, dc, timers, clock>>

NextView ==
    \/ OnOpen
    \/ EngineInitialized
    \/ EngineUpdate
    \/ TimerFire
    \/ Tick
    \/ OnClose
    \/ OnLoadFile
    \/ ConfigModified

SpecView == InitView /\ [][NextView]_vars

(***************************************************************************)
(* Claims on view.ts, under SpecView                                       *)
(***************************************************************************)
\* C6: a burst of 'update' notifications, each arriving before the quiet
\* interval since the previous one has elapsed, gets exactly one pass of
\* refresh, run DEBOUNCE_MS after the last notification of the burst, and at
\* every moment at most one debounce timer is pending. Every burst is
\* accounted for by one pass, one pending timer or one timer onClose cleared.
C6_OnePassPerBurst ==
    /\ Cardinality(timers) <= 1
    /\ \A t \in timers : t.due = hist.lastNotify + DEBOUNCE_MS
    /\ hist.bursts = hist.passes + hist.cancelled + Cardinality(timers)
    /\ hist.passes > 0 => hist.passAt = hist.passNotify + DEBOUNCE_MS

\* A burst of two notifications or more has had its pass.
C6_Witness ==
    /\ hist.passes = 1
    /\ hist.passSize >= 2
    /\ hist.bursts = 1
    /\ timers = {}

\* C7: once onClose has run, no debounce timer of the view is pending and
\* neither the 'update' subscription nor the one-shot 'initialized'
\* subscription of the view is registered with the engine.
C7_ClosedViewIsReleased ==
    view.phase = "closed" =>
        /\ timers = {}
        /\ dc.onUpdate = 0
        /\ dc.onInitialized = 0

\* C8: when the last load of the config, by onLoadFile or by the modify
\* notification, failed with a ConfigError, the open view displays an error
\* and no task list, until a later load succeeds.
C8_ConfigErrorBlocks ==
    (view.phase = "open" /\ hist.cfgError /\ hist.loadedBy \in {"onLoadFile", "modify"})
        => view.shown = "error"

(***************************************************************************)
(* The values, sources and views query.ts is exercised on                  *)
(***************************************************************************)
\* Filter values: keywords, dates, tags that look like dates, booleans and
\* numbers, near misses of each pattern, and strings with a quote.
ValuePool ==
    { <<"t", "o", "d", "a", "y">>,
      <<"n", "o", "w">>,
      <<"T", "o", "d", "a", "y">>,
      <<"2", "0", "2", "4", "-", "0", "1", "-", "1", "5">>,
      <<"#", "2", "0", "2", "4", "-", "0", "1", "-", "1", "5">>,
      <<"2", "0", "2", "4", "-", "1", "-", "1", "5">>,
      <<"2", "0", "2", "4", "-", "0", "1", "-", "1", "5", "x">>,
      <<"x", "2", "0", "2", "4", "-", "0", "1", "-", "1", "5">>,
      <<"#", "t", "r", "u", "e">>,
      <<"t", "r", "u", "e">>,
      <<"f", "a", "l", "s", "e">>,
      <<"#", "1", "2">>,
      <<"1", "2">>,
      <<"-", "1", ".", "5">>,
      <<"1", ".">>,
      <<"-">>,
      <<>>,
      <<"#">>,
      <<"a", "\"", "b">>,
      <<"#", "a", "\"", "b">>,
      <<"1", "2", "a">>,
      <<" ", "1", "2">>,
      <<"a", "b", "c">> }

\* source.folder for buildPageQuery: also white space alone, and around a name.
QueryFolders == FolderPool \cup { <<" ">>, <<" ", "P">> }

QuerySources ==
    { Obj(<<Entry(K_filters, Arr(fs))>>) : fs \in FilterSeqs }
    \cup { Obj(<<Entry(K_folder, Str(f)), Entry(K_filters, Arr(fs))>>) :
               f \in QueryFolders, fs \in FilterSeqs }

InitQuery ==
    /\ vault = [f \in {"a.md"} |-> <<>>]
    /\ lastOp = NoOp
    /\ chain = NoChain
    /\ batch = NoBatch
    /\ cfg = NoCfg
    /\ NoView
    /\ agg = NoAgg
    /\ \/ \E v \in ValuePool :
              qry = [NoQry EXCEPT !.kind = "value", !.value = v]
       \/ \E src \in QuerySources, vw \in Views :
              qry = [NoQry EXCEPT !.kind = "query", !.source = src, !.view = vw]

\* A filter value is formatted: formatValue(value).
FormatValue ==
    /\ qry.pc = "idle"
    /\ qry.kind = "value"
    /\ qry' = [qry EXCEPT !.pc = "done", !.out = formatValue(qry.value)]
    /\ UNCHANGED <<vault, lastOp, chain, batch, cfg, viewVars, agg>>

\* The query of a source and a view is built: buildQuery(source, view).
BuildQuery ==
    /\ qry.pc = "idle"
    /\ qry.kind = "query"
    /\ qry' = [qry EXCEPT !.pc = "done", !.out = buildQuery(qry.source, qry.view)]
    /\ UNCHANGED <<vault, lastOp, chain, batch, cfg, viewVars, agg>>

NextQuery ==
    \/ FormatValue
    \/ BuildQuery

SpecQuery == InitQuery /\ [][NextQuery]_vars

\* The number of places of text where the text part starts.
occurrences(text, part) ==
    Cardinality({ k \in 1..(Len(text) - Len(part) + 1) :
                      SubSeq(text, k, k + Len(part) - 1) = part })

\* C13: buildQuery returns "@task and childof(<buildPageQuery(source)>)",
\* followed by " and $completed = false" when view.showCompleted is false and
\* by nothing when it is true: the clause is appended exactly once, and only
\* in that case. A source with no folder and no filter gives the page query
\* "@page".
C13_CompletionClauseOnlyWhenHidden ==
    (qry.pc = "done" /\ qry.kind = "query") =>
        LET page == buildPageQuery(qry.source)
            base == T_taskChildof \o page \o T_close
            show == get(qry.view, K_showCompleted).b
        IN  /\ qry.out = IF show THEN base ELSE base \o T_notCompleted
            /\ occurrences(qry.out, T_notCompleted)
                   = occurrences(page, T_notCompleted) + (IF show THEN 0 ELSE 1)
            /\ (get(qry.source, K_folder) = Undefined
                    /\ get(qry.source, K_filters).a = <<>>) => page = T_page

\* The query of a source with a folder and two filters, for a view that hides
\* completed tasks, has been built and ends with the completion clause.
C13_Witness ==
    /\ qry.pc = "done"
    /\ qry.kind = "query"
    /\ ~get(qry.view, K_showCompleted).b
    /\ get(qry.source, K_folder) = Str(<<"P">>)
    /\ Len(get(qry.source, K_filters).a) = 2
    /\ SubSeq(qry.out, Len(qry.out) - Len(T_notCompleted) + 1, Len(qry.out)) = T_notCompleted

\* C14: formatValue returns the rendering of the first rule that matches, in
\* the order keyword, ISO date, tag, boolean, number, string; a value that
\* starts with "#" is rendered between double quotes, never as a date, a
\* boolean or a number.
C14_FirstMatchingRule ==
    (qry.pc = "done" /\ qry.kind = "value") =>
        LET v       == qry.value
            keyword == v \in {T_today, T_now}
            date    == isISODate(v)
            tag     == Len(v) > 0 /\ Head(v) = "#"
            boolean == v \in {T_true, T_false}
            number  == isNumber(v)
        IN  /\ keyword => qry.out = T_dateOpen \o v \o T_close
            /\ (~keyword /\ date) => qry.out = T_dateOpen \o v \o T_close
            /\ (~keyword /\ ~date /\ tag) => qry.out = Quote \o v \o Quote
            /\ (~keyword /\ ~date /\ ~tag /\ boolean) => qry.out = v
            /\ (~keyword /\ ~date /\ ~tag /\ ~boolean /\ number) => qry.out = v
            /\ (~keyword /\ ~date /\ ~tag /\ ~boolean /\ ~number)
                   => qry.out = Quote \o escapeQuotes(v) \o Quote
            /\ tag => /\ qry.out = Quote \o v \o Quote
                      /\ Head(qry.out) = "\""
                      /\ qry.out[Len(qry.out)] = "\""

\* The tag that looks like a date has been formatted, as a quoted string.
C14_Witness ==
    /\ qry.pc = "done"
    /\ qry.kind = "value"
    /\ qry.value = <<"#", "2", "0", "2", "4", "-", "0", "1", "-", "1", "5">>
    /\ qry.out = <<"\"", "#", "2", "0", "2", "4", "-", "0", "1", "-", "1", "5", "\"">>

(***************************************************************************)
(* The index, the views and the result sets one pass of refresh runs on    *)
(***************************************************************************)
Open == Bool(FALSE)
Done == Bool(TRUE)

\* The documents of the index, each the list items at the root of its lists.
\* A root has the negated line of its list as $parentLine, a child the line
\* of its parent.
DocNested ==
    <<Item(<<"b">>, 1, Open, 0 - 1, <<Item(<<"b">>, 2, Done, 1, <<>>)>>)>>

DocPlainParent ==
    <<Item(<<"B">>, 1, Undefined, 0 - 1, <<Item(<<"B">>, 2, Open, 1, <<>>)>>)>>

DocTwoRoots ==
    <<Item(<<"a">>, 1, Open, 0 - 1, <<>>),
      Item(<<"a">>, 3, Done, 0 - 1, <<Item(<<"a">>, 4, Open, 3, <<>>)>>)>>

DocDeep ==
    <<Item(<<"a", "b">>, 1, Open, 0 - 1,
           <<Item(<<"a", "b">>, 2, Undefined, 1,
                  <<Item(<<"a", "b">>, 3, Open, 2, <<>>)>>)>>)>>

DocPool == { DocNested, DocPlainParent, DocTwoRoots, DocDeep }

\* The indexes: up to MaxDocs different documents, in any order.
Indexes ==
    UNION { { ix \in [1..n -> DocPool] : \A i, j \in 1..n : i # j => ix[i] # ix[j] } :
            n \in 0..MaxDocs }

AggViews ==
    { ViewConfig(show, sortBy, dir) :
          show \in BOOLEAN, sortBy \in {S_file, <<"m">>}, dir \in {S_asc, S_desc} }

\* Every list item of a sequence of items, at every depth, in document order.
RECURSIVE flatten(_)
flatten(items) ==
    IF Len(items) = 0 THEN <<>>
    ELSE <<Head(items)>> \o flatten(Head(items).elements) \o flatten(Tail(items))

RECURSIVE flattenDocs(_)
flattenDocs(ix) ==
    IF Len(ix) = 0 THEN <<>> ELSE flatten(Head(ix)) \o flattenDocs(Tail(ix))

\* The orders in which the engine may return its records.
ResultOrders == {"index", "reversed", "byLine"}

ordered(seq, order) ==
    CASE order = "index"    -> seq
      [] order = "reversed" -> [k \in 1..Len(seq) |-> seq[Len(seq) + 1 - k]]
      [] order = "byLine"   -> stableSort(seq, LAMBDA a, b : a.line - b.line)

\* Whether a query ends with the completion clause.
hidesCompleted(query) ==
    /\ Len(query) >= Len(T_notCompleted)
    /\ SubSeq(query, Len(query) - Len(T_notCompleted) + 1, Len(query)) = T_notCompleted

\* dc.query(query) on an index whose pages all match: the tasks, at every
\* depth, that satisfy the query, each with all its $elements.
dcQuery(query, ix, order) ==
    LET matches(item) == /\ isTask(item)
                         /\ hidesCompleted(query) => item.completed = Open
    IN  SelectSeq(ordered(flattenDocs(ix), order), matches)

InitAggregate ==
    /\ vault = [f \in {"a.md"} |-> <<>>]
    /\ lastOp = NoOp
    /\ chain = NoChain
    /\ batch = NoBatch
    /\ cfg = NoCfg
    /\ NoView
    /\ qry = NoQry
    /\ \E ix \in Indexes, vw \in AggViews :
           agg = [NoAgg EXCEPT !.index = ix, !.view = vw]

\* One pass of refresh() with the engine ready: the query, groupByFile,
\* sortGroups, renderTaskList.
Refresh ==
    /\ agg.pc = "idle"
    /\ \E order \in ResultOrders :
           LET source  == get(DEFAULT_CONFIG, K_source)
               tasks   == dcQuery(buildQuery(source, agg.view), agg.index, order)
               grouped == groupByFile(tasks)
               sorted  == sortGroups(grouped, agg.view)
           IN  agg' = [agg EXCEPT !.pc = "rendered", !.tasks = tasks,
                                  !.groups = grouped, !.sorted = sorted,
                                  !.rendered = render(sorted)]
    /\ UNCHANGED <<vault, lastOp, chain, batch, cfg, viewVars, qry>>

NextAggregate == Refresh

SpecAggregate == InitAggregate /\ [][NextAggregate]_vars

\* The places <<k, j>> of the groups at which a record is a member.
placesOf(groups, task) ==
    { <<k, j>> \in (1..Len(groups)) \X (1..Len(agg.tasks)) :
          j <= Len(groups[k].tasks) /\ groups[k].tasks[j] = task }

\* C11: groupByFile makes a record a member of a group iff its parentLine is
\* negative: no member has parentLine >= 0, every record with parentLine < 0
\* is a member exactly once, of the group keyed by its own path, and there
\* is exactly one group per path of a root record.
C11_GroupsHoldRootsOnly ==
    agg.pc = "rendered" =>
        /\ \A k \in 1..Len(agg.groups) : \A j \in 1..Len(agg.groups[k].tasks) :
               /\ agg.groups[k].tasks[j].parentLine < 0
               /\ agg.groups[k].tasks[j].file = agg.groups[k].key
               /\ \E i \in 1..Len(agg.tasks) : agg.tasks[i] = agg.groups[k].tasks[j]
        /\ \A i \in 1..Len(agg.tasks) :
               agg.tasks[i].parentLine < 0 =>
                   Cardinality(placesOf(agg.groups, agg.tasks[i])) = 1
        /\ \A k, l \in 1..Len(agg.groups) :
               agg.groups[k].key = agg.groups[l].key => k = l
        /\ { agg.groups[k].key : k \in 1..Len(agg.groups) }
               = { agg.tasks[i].file : i \in { n \in 1..Len(agg.tasks) :
                                                 agg.tasks[n].parentLine < 0 } }

\* A result set with roots of two documents and a nested record has been
\* grouped.
C11_Witness ==
    /\ agg.pc = "rendered"
    /\ Len(agg.groups) = 2
    /\ \E i \in 1..Len(agg.tasks) : agg.tasks[i].parentLine >= 0
    /\ \E k \in 1..Len(agg.groups) : Len(agg.groups[k].tasks) = 2

timesDrawn(task) ==
    Cardinality({ k \in 1..Len(agg.rendered) : agg.rendered[k] = Drawn(task) })

\* C18: every task record of the result set is rendered exactly once, as a
\* member of its document's group or through the children of a rendered
\* ancestor: none is rendered twice and none is lost.
C18_EveryResultRenderedOnce ==
    agg.pc = "rendered" =>
        \A i \in 1..Len(agg.tasks) : timesDrawn(agg.tasks[i]) = 1

\* C19: when view.showCompleted is false, no completed task is rendered, as
\* a root or as a child.
C19_HiddenCompletedNeverRendered ==
    (agg.pc = "rendered" /\ ~get(agg.view, K_showCompleted).b) =>
        \A k \in 1..Len(agg.rendered) : agg.rendered[k].completed # Done

(***************************************************************************)
(* Passes of refresh and the engine's state                                *)
(***************************************************************************)
\* window.datacore is there and dc.core.initialized.
engineReady(d) == d.exists /\ d.initialized

ClickTasks ==
    [file : {"a.md"}, line : 0..2, completed : {FALSE}]
    \cup [file : {"dir", "gone"}, line : {0}, completed : {FALSE}]

\* handleToggle without its refresh.
handleToggleNoRefresh(v, d, result, throws) == v

\* handleToggle(task) from the result of toggleTask on: a failure is logged
\* and refresh is called.
handleToggle(v, d, result, throws) ==
    IF ~result.success THEN refresh(v, d, throws) ELSE v

InitClick ==
    /\ vault = [f \in {"a.md"} |-> join(<<LineOpenCR, LineNote>>)]
    /\ lastOp = NoOp
    /\ chain = NoChain
    /\ batch = NoBatch
    /\ cfg = NoCfg
    /\ NoPure
    /\ view = NewView
    /\ \E e \in BOOLEAN, i \in BOOLEAN :
           dc = [exists |-> e, initialized |-> e /\ i, onInitialized |-> 0,
                 onUpdate |-> 0, data |-> 0]
    /\ timers = {}
    /\ clock = [now |-> 0, nextId |-> 1]
    /\ file \in FileStates
    /\ hist = NoHist

\* The user clicks the checkbox of a rendered task: the checkbox changes, and
\* its 'change' listener calls onToggle, handleToggle, which calls toggleTask
\* and awaits it.
HandleToggle ==
    /\ view.phase = "open"
    /\ view.shown = "list"
    /\ view.rendered.has
    /\ Cardinality(view.toggling) < MaxPending
    /\ \E task \in ClickTasks \ view.toggling :
           view' = [view EXCEPT !.rendered.dirty = TRUE, !.toggling = @ \cup {task}]
    /\ UNCHANGED <<vault, lastOp, chain, batch, cfg, pureVars, dc, timers, clock, file, hist>>

\* toggleTask settles, and handleToggle goes on from its await.
ToggleSettled ==
    /\ \E task \in view.toggling, throws \in BOOLEAN :
           LET r == toggleTask(vault, task)
           IN  /\ vault' = r.vault
               /\ lastOp' = [NoOp EXCEPT !.op = "toggleTask", !.task = task,
                                         !.result = r.result, !.reads = r.reads,
                                         !.writes = r.writes]
               /\ view' = handleToggle([view EXCEPT !.toggling = @ \ {task}], dc,
                                       r.result, throws)
    /\ UNCHANGED <<chain, batch, cfg, pureVars, dc, timers, clock, file, hist>>

\* The view with its direct passes: the engine's 'update' notifications and
\* the debounce timer are left to SpecView.
NextClick ==
    \/ OnOpen
    \/ EngineInitialized
    \/ OnClose
    \/ OnLoadFile
    \/ ConfigModified
    \/ HandleToggle
    \/ ToggleSettled

SpecClick == InitClick /\ [][NextClick]_vars

\* C17: when the last toggle requested from the view has failed, with
\* whichever error, and no other is awaited, the list the view shows has been
\* rendered since the click: no checkbox of a shown list keeps the state the
\* click gave it.
C17_FailedToggleRefreshes ==
    (/\ lastOp.op = "toggleTask"
     /\ ~lastOp.result.success
     /\ view.toggling = {})
        => ~(view.shown = "list" /\ view.rendered.dirty)

\* A toggle of a line that is no checkbox has failed, and the list is shown
\* as rendered from the engine's data.
C17_Witness ==
    /\ lastOp.op = "toggleTask"
    /\ lastOp.result = Failure("Line is not a checkbox")
    /\ view.toggling = {}
    /\ view.phase = "open"
    /\ view.shown = "list"
    /\ view.rendered.has
    /\ ~view.rendered.dirty

====
